---- MODULE Spec2Model ----
(***************************************************************************)
(* Model of cinder/volume/drivers/vmware/read_write_util.py:               *)
(*   GlanceFileRead, VMwareHTTPFile, VMwareHTTPWriteFile,                  *)
(*   VMwareHTTPReadFile.                                                   *)
(* Strings are sequences of one-character strings, so that quoting,        *)
(* form-encoding and URL parsing are computed character by character.      *)
(***************************************************************************)
EXTENDS Integers, Sequences, FiniteSets, TLC

\* ------------------------------------------------------------------------
\* Bounds of the model
\* ------------------------------------------------------------------------
MaxClose == 2

MaxIO == 2

MaxSetEof == 2

MaxGlanceReads == 5

MaxChunks == 3

\* ------------------------------------------------------------------------
\* Program constants
\* ------------------------------------------------------------------------
READ_CHUNKSIZE == 65536

USER_AGENT == "OpenStack-ESX-Adapter"

\* ------------------------------------------------------------------------
\* Characters
\* ------------------------------------------------------------------------
LowerLetters ==
  <<"a","b","c","d","e","f","g","h","i","j","k","l","m",
    "n","o","p","q","r","s","t","u","v","w","x","y","z">>

UpperLetters ==
  <<"A","B","C","D","E","F","G","H","I","J","K","L","M",
    "N","O","P","Q","R","S","T","U","V","W","X","Y","Z">>

Digits == {"0","1","2","3","4","5","6","7","8","9"}

Range(s) == { s[i] : i \in 1..Len(s) }

Letters == Range(LowerLetters) \cup Range(UpperLetters)

\* str.lower() on one character
LowerChar(c) ==
  IF c \in Range(UpperLetters)
  THEN LowerLetters[CHOOSE i \in 1..26 : UpperLetters[i] = c]
  ELSE c

\* str.lower()
Lower(s) == [ i \in 1..Len(s) |-> LowerChar(s[i]) ]

\* urlparse.scheme_chars
scheme_chars == Letters \cup Digits \cup {"+", "-", "."}

\* urllib.always_safe
always_safe == Letters \cup Digits \cup {"_", ".", "-"}

\* '%02X' % ord(c) for the punctuation the model uses
HexOf(c) ==
  CASE c = " " -> <<"2","0">>
    [] c = "#" -> <<"2","3">>
    [] c = "%" -> <<"2","5">>
    [] c = "&" -> <<"2","6">>
    [] c = "+" -> <<"2","B">>
    [] c = "/" -> <<"2","F">>
    [] c = ":" -> <<"3","A">>
    [] c = ";" -> <<"3","B">>
    [] c = "=" -> <<"3","D">>
    [] c = "?" -> <<"3","F">>
    [] OTHER   -> <<"0","0">>

\* s.find(c): 1-based index of the first c in s, 0 when absent
Find(s, c) ==
  IF \E i \in 1..Len(s) : s[i] = c
  THEN CHOOSE i \in 1..Len(s) : s[i] = c /\ \A j \in 1..(i-1) : s[j] # c
  ELSE 0

\* s.rfind(c): 1-based index of the last c in s, 0 when absent
RFind(s, c) ==
  IF \E i \in 1..Len(s) : s[i] = c
  THEN CHOOSE i \in 1..Len(s) : s[i] = c /\ \A j \in (i+1)..Len(s) : s[j] # c
  ELSE 0

\* s[:n] and s[n:] of Python, with 0-based n
Prefix(s, n) == SubSeq(s, 1, n)

Suffix(s, n) == SubSeq(s, n + 1, Len(s))

\* sub in s
Contains(s, sub) ==
  \E i \in 0..(Len(s) - Len(sub)) : SubSeq(s, i + 1, i + Len(sub)) = sub

\* ------------------------------------------------------------------------
\* urllib.quote, urllib.quote_plus, urllib.pathname2url, urllib.urlencode
\* ------------------------------------------------------------------------
RECURSIVE quote(_, _)
quote(s, safe) ==
  IF s = <<>> THEN <<>>
  ELSE (IF Head(s) \in always_safe \cup safe
        THEN <<Head(s)>>
        ELSE <<"%">> \o HexOf(Head(s))) \o quote(Tail(s), safe)

\* s.replace(' ', '+')
ReplaceSpace(s) == [ i \in 1..Len(s) |-> IF s[i] = " " THEN "+" ELSE s[i] ]

quote_plus(s) ==
  IF " " \in Range(s) THEN ReplaceSpace(quote(s, {" "})) ELSE quote(s, {})

pathname2url_identity(p) == p

\* urllib.pathname2url on posix: quote(pathname) with the default safe '/'
pathname2url(p) == quote(p, {"/"})

\* urllib.urlencode of a dict whose items() come in the order `items`
RECURSIVE urlencode(_)
urlencode(items) ==
  IF items = <<>> THEN <<>>
  ELSE LET kv == quote_plus(Head(items)[1]) \o <<"=">> \o quote_plus(Head(items)[2])
       IN  IF Len(items) = 1 THEN kv
           ELSE kv \o <<"&">> \o urlencode(Tail(items))

\* ------------------------------------------------------------------------
\* urlparse.urlparse
\* ------------------------------------------------------------------------
\* min index (0-based) of any of '/?#' in url at or after start, else len(url)
NetlocEnd(url, start) ==
  LET idx == { i \in (start + 1)..Len(url) : url[i] \in {"/", "?", "#"} }
  IN  IF idx = {} THEN Len(url)
      ELSE (CHOOSE i \in idx : \A j \in idx : i <= j) - 1

AllDigits(s) == \A i \in 1..Len(s) : s[i] \in Digits

\* the scheme urlsplit recognises, and the rest of the url
SplitScheme(url) ==
  LET i == Find(url, ":") - 1
      head == Prefix(url, i)
      rest == Suffix(url, i + 1)
  IN  IF i > 0 /\ Range(head) \subseteq scheme_chars
              /\ (head = <<"h","t","t","p">> \/ rest = <<>> \/ ~ AllDigits(rest))
      THEN [scheme |-> Lower(head), url |-> rest]
      ELSE [scheme |-> <<>>, url |-> url]

SplitNetloc(url) ==
  IF Len(url) >= 2 /\ Prefix(url, 2) = <<"/","/">>
  THEN [netloc |-> SubSeq(url, 3, NetlocEnd(url, 2)),
        url    |-> Suffix(url, NetlocEnd(url, 2))]
  ELSE [netloc |-> <<>>, url |-> url]

\* url.split(c, 1) when c in url
SplitAt(url, c) ==
  IF c \in Range(url)
  THEN [head |-> Prefix(url, Find(url, c) - 1), tail |-> Suffix(url, Find(url, c))]
  ELSE [head |-> url, tail |-> <<>>]

\* urlparse._splitparams
SplitParams(url) ==
  LET from == IF "/" \in Range(url) THEN RFind(url, "/") ELSE 0
      idx  == { i \in (from + 1)..Len(url) : url[i] = ";" }
  IN  IF idx = {} THEN [head |-> url, tail |-> <<>>]
      ELSE LET i == CHOOSE k \in idx : \A j \in idx : k <= j
           IN  [head |-> Prefix(url, i - 1), tail |-> Suffix(url, i)]

\* urlparse.uses_params
uses_params ==
  { <<>>,
    <<"f","t","p">>,
    <<"h","d","l">>,
    <<"p","r","o","s","p","e","r","o">>,
    <<"h","t","t","p">>,
    <<"i","m","a","p">>,
    <<"h","t","t","p","s">>,
    <<"s","h","t","t","p">>,
    <<"r","t","s","p">>,
    <<"r","t","s","p","u">>,
    <<"s","i","p">>,
    <<"s","i","p","s">>,
    <<"m","m","s">>,
    <<"s","f","t","p">>,
    <<"t","e","l">> }

urlparse(url) ==
  LET s  == SplitScheme(url)
      n  == SplitNetloc(s.url)
      f  == SplitAt(n.url, "#")
      q  == SplitAt(f.head, "?")
      p  == IF s.scheme \in uses_params /\ ";" \in Range(q.head)
            THEN SplitParams(q.head)
            ELSE [head |-> q.head, tail |-> <<>>]
  IN  [scheme |-> s.scheme, netloc |-> n.netloc, path |-> p.head,
       params |-> p.tail, query |-> q.tail, fragment |-> f.tail]


\* ------------------------------------------------------------------------
\* Inputs
\* ------------------------------------------------------------------------
S_http == <<"h","t","t","p">>

S_https == <<"h","t","t","p","s">>

S_folder == <<"/","f","o","l","d","e","r","/">>

ExamplePath == <<"a"," ","b","/","c",".","v","m","d","k">>

ExampleEscaped == <<"a","%","2","0","b","/","c",".","v","m","d","k">>

Schemes == { S_http, S_https, <<"H","T","T","P">>, <<"f","t","p">>, <<>> }

Hosts == { <<"h">>, <<":",":","1">> }

Paths == { ExamplePath, <<"d">>, <<"a",";","b","#","c">> }

DcNames == { <<"d"," ","c">> }

DsNames == { <<"d","s">> }

\* the two orders in which items() can enumerate a two-key dict
DictOrders == { <<1, 2>>, <<2, 1>> }

\* cookie jars: each cookie has a name and a value
CookieJars == { <<>>, <<[name |-> "n1", value |-> "v1"], [name |-> "n2", value |-> "v2"]>> }

FileSizes == { 1024 }

\* Content-Length header of the GET response: absent, or its text
NoHeader == "absent"

ContentLengths == { NoHeader, "70000" }

\* number of body bytes the GET response still holds
BodySizes == { 0, 100, 70000 }

\* sizes a caller asks read() for
RequestedSizes == { 0, 1024, 100000 }

\* image chunks handed over by the image service
Chunks == { "", "c1", "c2" }

\* ------------------------------------------------------------------------
\* State
\* ------------------------------------------------------------------------
VARIABLES
  args,          \* arguments __init__ was called with
  kind,          \* "none", "write" (VMwareHTTPWriteFile), "read" (VMwareHTTPReadFile)
  phase,         \* "new", "open", "failed" (__init__ raised), "finalized" (__del__ ran)
  base_url,      \* the URL built by __init__
  request,       \* what __init__ put on the connection / passed to urlopen
  connObj,       \* connection object created: "none", "HTTPConnection", "HTTPSConnection", "urlopen"
  conn,          \* self.conn is assigned
  file_handle,   \* self.file_handle is assigned
  eof,           \* self.eof
  releaseLog,    \* calls made on the handle by close(): [op, ok]
  raised,        \* exception the last call let escape, "none" when it returned
  log,           \* records written to LOG
  nclose,        \* explicit close() calls so far
  nio,           \* read()/write() calls so far
  nseteof,       \* set_eof() calls so far
  respHeaders,   \* Content-Length of the response held by the handle
  remaining,     \* body bytes the response still holds
  lastRead,      \* [asked, got] of the last read(): amount asked of the handle, bytes returned
  lastSize,      \* value returned by the last get_size()
  glance_read_iter, \* GlanceFileRead.glance_read_iter: the chunks still to come are those after iterPos
  iterPos,       \* chunks the generator has taken from glance_read_iter
  iterState,     \* state of the generator self.iter: "none", "live", "finished"
  results        \* what each read() of GlanceFileRead returned, in call order

vars == <<args, kind, phase, base_url, request, connObj, conn, file_handle, eof,
          releaseLog, raised, log, nclose, nio, nseteof, respHeaders,
          remaining, lastRead, lastSize,
          glance_read_iter, iterPos, iterState, results>>

streamVars == <<args, kind, phase, base_url, request, connObj, conn, file_handle, eof,
                releaseLog, raised, log, nclose, nio, nseteof, respHeaders,
                remaining, lastRead, lastSize>>

glanceVars == <<glance_read_iter, iterPos, iterState, results>>

NoRequest == [method |-> "none", target |-> <<>>, headers |-> <<>>]

NoRead == [asked |-> -1, got |-> -1]

NoSize == [type |-> "none", val |-> "none"]


NoArgs == [scheme |-> <<>>, host |-> <<>>, file_path |-> <<>>, dc |-> <<>>,
           ds |-> <<>>, order |-> <<1, 2>>, cookies |-> <<>>, file_size |-> 0]

\* the argument tuples __init__ is tried with: every scheme with every path,
\* and every host, dict order and cookie jar with the example path
ArgSets ==
  [scheme : Schemes, host : {<<"h">>}, file_path : Paths, dc : DcNames,
   ds : DsNames, order : {<<1, 2>>}, cookies : {<<>>}, file_size : FileSizes]
  \cup
  [scheme : {S_https}, host : Hosts, file_path : {ExamplePath}, dc : DcNames,
   ds : DsNames, order : DictOrders, cookies : CookieJars, file_size : FileSizes]

\* ------------------------------------------------------------------------
\* VMwareHTTPFile helpers
\* ------------------------------------------------------------------------
HexDigits == Digits \cup {"a","b","c","d","e","f","A","B","C","D","E","F"}

\* netaddr.valid_ipv6 on the hosts of the model: hex groups separated by colons
_is_valid_ipv6(address) ==
  ":" \in Range(address) /\ Range(address) \subseteq HexDigits \cup {":"}

get_soap_url(scheme, host) ==
  IF _is_valid_ipv6(host)
  THEN scheme \o <<":","/","/","[">> \o host \o <<"]">>
  ELSE scheme \o <<":","/","/">> \o host

\* only the first cookie is used
_build_vim_cookie_headers(vim_cookies) ==
  IF vim_cookies = <<>> THEN <<>>
  ELSE <<vim_cookies[1].name, "=", vim_cookies[1].value>>

\* items() of {'dcPath': data_center_name, 'dsName': datastore_name}
ParamItems(a) ==
  LET d == << <<<<"d","c","P","a","t","h">>, a.dc>>, <<<<"d","s","N","a","m","e">>, a.ds>> >>
  IN  << d[a.order[1]], d[a.order[2]] >>

\* base_url of VMwareHTTPWriteFile.__init__
WriteBaseUrl(a) ==
  get_soap_url(a.scheme, a.host) \o S_folder \o a.file_path
    \o <<"?">> \o urlencode(ParamItems(a))

\* base_url of VMwareHTTPReadFile.__init__
ReadBaseUrl(a) ==
  get_soap_url(a.scheme, a.host) \o S_folder \o pathname2url(a.file_path)
    \o <<"?">> \o urlencode(ParamItems(a))

SelectConn_default(scheme) ==
  IF scheme = S_http THEN "HTTPConnection" ELSE "HTTPSConnection"

\* the if/elif on the parsed scheme; with neither branch taken conn stays unbound
SelectConn(scheme) ==
  IF scheme = S_http THEN "HTTPConnection"
  ELSE IF scheme = S_https THEN "HTTPSConnection"
  ELSE "unbound"

\* self.eof as returned by get_eof()
get_eof == eof

\* ------------------------------------------------------------------------
\* Constructors
\* ------------------------------------------------------------------------
\* VMwareHTTPWriteFile.__init__; sendOk: endheaders() reached the server
VMwareHTTPWriteFile_init(a, sendOk) ==
  LET url == WriteBaseUrl(a)
      p   == urlparse(url)
      c   == SelectConn(p.scheme)
  IN  /\ phase = "new"
      /\ kind' = "write"
      /\ args' = a
      /\ base_url' = url
      /\ IF c = "unbound"
         THEN /\ connObj' = "none"
              /\ request' = NoRequest
              /\ raised' = "UnboundLocalError"
              /\ phase' = "failed"
              /\ UNCHANGED <<conn, file_handle>>
         ELSE /\ connObj' = c
              /\ request' = [method  |-> "PUT",
                             target  |-> p.path \o <<"?">> \o p.query,
                             headers |-> << <<"User-Agent", USER_AGENT>>,
                                            <<"Content-Length", a.file_size>>,
                                            <<"Cookie", _build_vim_cookie_headers(a.cookies)>> >>]
              /\ IF sendOk
                 THEN /\ conn' = TRUE
                      /\ file_handle' = TRUE
                      /\ raised' = "none"
                      /\ phase' = "open"
                 ELSE /\ raised' = "error"
                      /\ phase' = "failed"
                      /\ UNCHANGED <<conn, file_handle>>
      /\ UNCHANGED <<eof, releaseLog, log, nclose, nio, nseteof, respHeaders,
                     remaining, lastRead, lastSize>>
      /\ UNCHANGED glanceVars

\* VMwareHTTPReadFile.__init__; openOk: urlopen() returned a response
VMwareHTTPReadFile_init(a, openOk, length, body) ==
  LET url == ReadBaseUrl(a)
  IN  /\ phase = "new"
      /\ (a.scheme = <<>> => ~ openOk)   \* urlopen: unknown url type
      /\ kind' = "read"
      /\ args' = a
      /\ base_url' = url
      /\ request' = [method  |-> "GET",
                     target  |-> url,
                     headers |-> << <<"User-Agent", USER_AGENT>>,
                                    <<"Cookie", _build_vim_cookie_headers(a.cookies)>> >>]
      /\ IF openOk
         THEN /\ connObj' = "urlopen"
              /\ file_handle' = TRUE
              /\ respHeaders' = length
              /\ remaining' = body
              /\ raised' = "none"
              /\ phase' = "open"
         ELSE /\ raised' = "error"
              /\ phase' = "failed"
              /\ UNCHANGED <<connObj, file_handle, respHeaders, remaining>>
      /\ UNCHANGED <<conn, eof, releaseLog, log, nclose, nio, nseteof,
                     lastRead, lastSize>>
      /\ UNCHANGED glanceVars


\* ------------------------------------------------------------------------
\* close() and __del__
\* ------------------------------------------------------------------------
VMwareHTTPFile_close_noTry(fh, closeOk) ==
  IF ~ fh THEN [calls |-> <<>>, logs |-> <<>>, raised |-> "AttributeError"]
  ELSE [calls  |-> <<[op |-> "close", ok |-> closeOk]>>,
        logs   |-> <<>>,
        raised |-> IF closeOk THEN "none" ELSE "error"]

\* VMwareHTTPFile.close: self.file_handle.close() inside try/except Exception.
\* fh: self.file_handle is assigned; closeOk: the handle's close() returned
VMwareHTTPFile_close(fh, closeOk) ==
  IF ~ fh THEN [calls |-> <<>>, logs |-> <<"exception">>, raised |-> "none"]
  ELSE [calls  |-> <<[op |-> "close", ok |-> closeOk]>>,
        logs   |-> IF closeOk THEN <<>> ELSE <<"exception">>,
        raised |-> "none"]

\* the try block of VMwareHTTPWriteFile.close: self.conn.getresponse()
GetResponseStep(cn, respOk) ==
  IF ~ cn THEN [calls |-> <<>>, logs |-> <<"debug">>, raised |-> "none"]
  ELSE [calls  |-> <<[op |-> "getresponse", ok |-> respOk]>>,
        logs   |-> IF respOk THEN <<>> ELSE <<"debug">>,
        raised |-> "none"]

\* b runs after a returned; it does not run when a raised
Then(a, b) ==
  IF a.raised # "none" THEN a
  ELSE [calls |-> a.calls \o b.calls, logs |-> a.logs \o b.logs, raised |-> b.raised]

VMwareHTTPWriteFile_close_inTry(cn, fh, respOk, closeOk) ==
  IF cn /\ respOk
  THEN Then(GetResponseStep(cn, respOk), VMwareHTTPFile_close(fh, closeOk))
  ELSE GetResponseStep(cn, respOk)

\* VMwareHTTPWriteFile.close
VMwareHTTPWriteFile_close(cn, fh, respOk, closeOk) ==
  Then(GetResponseStep(cn, respOk), VMwareHTTPFile_close(fh, closeOk))

\* close() as dispatched on the class of the stream
CloseSteps(k, cn, fh, respOk, closeOk) ==
  IF k = "write" THEN VMwareHTTPWriteFile_close(cn, fh, respOk, closeOk)
  ELSE VMwareHTTPFile_close(fh, closeOk)

\* an explicit close() by the caller
Close(respOk, closeOk) ==
  LET r == CloseSteps(kind, conn, file_handle, respOk, closeOk)
  IN  /\ phase = "open"
      /\ nclose < MaxClose
      /\ (kind = "read" => respOk)      \* the read stream makes no getresponse call
      /\ nclose' = nclose + 1
      /\ releaseLog' = releaseLog \o r.calls
      /\ log' = log \o r.logs
      /\ raised' = r.raised
      /\ UNCHANGED <<args, kind, phase, base_url, request, connObj, conn,
                     file_handle, eof, nio, nseteof, respHeaders, remaining,
                     lastRead, lastSize>>
      /\ UNCHANGED glanceVars

VMwareHTTPFile_del_pass(respOk, closeOk) ==
  /\ phase \in {"open", "failed"}
  /\ respOk /\ closeOk
  /\ phase' = "finalized"
  /\ raised' = "none"
  /\ UNCHANGED <<args, kind, base_url, request, connObj, conn, file_handle,
                 eof, releaseLog, log, nclose, nio, nseteof, respHeaders,
                 remaining, lastRead, lastSize>>
  /\ UNCHANGED glanceVars

\* VMwareHTTPFile.__del__: the finalizer runs self.close(), also on an object
\* whose __init__ raised
VMwareHTTPFile_del(respOk, closeOk) ==
  LET r == CloseSteps(kind, conn, file_handle, respOk, closeOk)
  IN  /\ phase \in {"open", "failed"}
      /\ ((kind = "read" \/ ~ conn) => respOk)
      /\ (~ file_handle => closeOk)
      /\ phase' = "finalized"
      /\ releaseLog' = releaseLog \o r.calls
      /\ log' = log \o r.logs
      /\ raised' = r.raised
      /\ UNCHANGED <<args, kind, base_url, request, connObj, conn, file_handle,
                     eof, nclose, nio, nseteof, respHeaders, remaining,
                     lastRead, lastSize>>
      /\ UNCHANGED glanceVars

\* ------------------------------------------------------------------------
\* set_eof, write, read, get_size
\* ------------------------------------------------------------------------
set_eof(v) ==
  /\ phase = "open"
  /\ nseteof < MaxSetEof
  /\ eof' = v
  /\ nseteof' = nseteof + 1
  /\ raised' = "none"
  /\ UNCHANGED <<args, kind, phase, base_url, request, connObj, conn,
                 file_handle, releaseLog, log, nclose, nio, respHeaders,
                 remaining, lastRead, lastSize>>
  /\ UNCHANGED glanceVars

\* the handle's close() has returned at least once
HandleClosed == \E i \in 1..Len(releaseLog) :
                   releaseLog[i].op = "close" /\ releaseLog[i].ok

\* VMwareHTTPWriteFile.write(data), and VMwareHTTPFile.write on a read stream
write(sendOk) ==
  /\ phase = "open"
  /\ nio < MaxIO
  /\ nio' = nio + 1
  /\ IF kind = "write"
     THEN raised' = IF sendOk THEN "none" ELSE "error"
     ELSE /\ sendOk
          /\ raised' = "NotImplementedError"
  /\ UNCHANGED <<args, kind, phase, base_url, request, connObj, conn,
                 file_handle, eof, releaseLog, log, nclose, nseteof,
                 respHeaders, remaining, lastRead, lastSize>>
  /\ UNCHANGED glanceVars

Min(a, b) == IF a <= b THEN a ELSE b

ReadAmount_requested(chunk_size) == chunk_size

\* the amount VMwareHTTPReadFile.read asks the handle for
ReadAmount(chunk_size) == READ_CHUNKSIZE

\* VMwareHTTPReadFile.read(chunk_size), and VMwareHTTPFile.read on a write stream
read(chunk_size, readOk) ==
  /\ phase = "open"
  /\ nio < MaxIO
  /\ nio' = nio + 1
  /\ IF kind = "read"
     THEN /\ (HandleClosed => ~ readOk)   \* a closed response cannot be read
          /\ IF readOk
             THEN LET got == Min(ReadAmount(chunk_size), remaining)
                  IN  /\ lastRead' = [asked |-> ReadAmount(chunk_size), got |-> got]
                      /\ remaining' = remaining - got
                      /\ raised' = "none"
             ELSE /\ raised' = "error"
                  /\ UNCHANGED <<lastRead, remaining>>
     ELSE /\ readOk
          /\ raised' = "NotImplementedError"
          /\ UNCHANGED <<lastRead, remaining>>
  /\ UNCHANGED <<args, kind, phase, base_url, request, connObj, conn,
                 file_handle, eof, releaseLog, log, nclose, nseteof,
                 respHeaders, lastSize>>
  /\ UNCHANGED glanceVars

\* headers.get('Content-Length', -1): the header's text (a str), or the
\* integer -1 (val holds the digits, type tells a str from an int)
HeaderGet(h) ==
  IF h = NoHeader THEN [type |-> "int", val |-> "-1"]
  ELSE [type |-> "str", val |-> h]

\* VMwareHTTPReadFile.get_size(), and VMwareHTTPFile.get_size on a write stream
get_size ==
  /\ phase = "open"
  /\ IF kind = "read"
     THEN /\ lastSize' = HeaderGet(respHeaders)
          /\ raised' = "none"
     ELSE /\ raised' = "NotImplementedError"
          /\ UNCHANGED lastSize
  /\ UNCHANGED <<args, kind, phase, base_url, request, connObj, conn,
                 file_handle, eof, releaseLog, log, nclose, nio, nseteof,
                 respHeaders, remaining, lastRead>>
  /\ UNCHANGED glanceVars


\* ------------------------------------------------------------------------
\* GlanceFileRead
\* ------------------------------------------------------------------------
RECURSIVE SeqsUpTo(_, _)
SeqsUpTo(S, n) ==
  IF n = 0 THEN { <<>> }
  ELSE SeqsUpTo(S, n - 1)
       \cup { Append(q, x) : q \in { r \in SeqsUpTo(S, n - 1) : Len(r) = n - 1 }, x \in S }

GlanceFileRead_read_restart(chunk_size) ==
  /\ iterState \in {"live", "finished"}
  /\ Len(results) < MaxGlanceReads
  /\ IF iterPos < Len(glance_read_iter)
     THEN /\ results' = Append(results, glance_read_iter[iterPos + 1])
          /\ iterPos' = iterPos + 1
          /\ UNCHANGED iterState
     ELSE /\ results' = Append(results, "")
          /\ iterPos' = 0
          /\ iterState' = "finished"
  /\ UNCHANGED glance_read_iter
  /\ UNCHANGED streamVars

\* GlanceFileRead.read(chunk_size): self.iter.next() on the generator made by
\* get_next(); StopIteration becomes "". A finished generator never resumes.
GlanceFileRead_read(chunk_size) ==
  /\ iterState \in {"live", "finished"}
  /\ Len(results) < MaxGlanceReads
  /\ IF iterState = "live" /\ iterPos < Len(glance_read_iter)
     THEN /\ results' = Append(results, glance_read_iter[iterPos + 1])
          /\ iterPos' = iterPos + 1
          /\ UNCHANGED iterState
     ELSE /\ results' = Append(results, "")
          /\ iterState' = "finished"
          /\ UNCHANGED iterPos
  /\ UNCHANGED glance_read_iter
  /\ UNCHANGED streamVars

\* GlanceFileRead.close(): does nothing but be called
GlanceFileRead_close ==
  /\ iterState \in {"live", "finished"}
  /\ nclose < MaxClose
  /\ nclose' = nclose + 1
  /\ UNCHANGED <<args, kind, phase, base_url, request, connObj, conn,
                 file_handle, eof, releaseLog, raised, log, nio, nseteof,
                 respHeaders, remaining, lastRead, lastSize>>
  /\ UNCHANGED glanceVars

\* ------------------------------------------------------------------------
\* Specifications
\* ------------------------------------------------------------------------
StreamStart ==
  /\ args = NoArgs
  /\ kind = "none"
  /\ phase = "new"
  /\ base_url = <<>>
  /\ request = NoRequest
  /\ connObj = "none"
  /\ conn = FALSE
  /\ file_handle = FALSE
  /\ eof = FALSE
  /\ releaseLog = <<>>
  /\ raised = "none"
  /\ log = <<>>
  /\ nclose = 0
  /\ nio = 0
  /\ nseteof = 0
  /\ respHeaders = NoHeader
  /\ remaining = 0
  /\ lastRead = NoRead
  /\ lastSize = NoSize

\* a stream about to be constructed; no GlanceFileRead
Init ==
  /\ StreamStart
  /\ glance_read_iter = <<>>
  /\ iterPos = 0
  /\ iterState = "none"
  /\ results = <<>>

\* a GlanceFileRead just constructed over an image iterator; no stream
InitGlance ==
  /\ StreamStart
  /\ glance_read_iter \in SeqsUpTo(Chunks, MaxChunks)
  /\ iterPos = 0
  /\ iterState = "live"
  /\ results = <<>>

ConstructWrite == \E a \in ArgSets, sendOk \in BOOLEAN : VMwareHTTPWriteFile_init(a, sendOk)

ConstructRead ==
  \E a \in ArgSets, openOk \in BOOLEAN, length \in ContentLengths, body \in BodySizes :
     VMwareHTTPReadFile_init(a, openOk, length, body)

DoClose == \E respOk \in BOOLEAN, closeOk \in BOOLEAN : Close(respOk, closeOk)

DoDel == \E respOk \in BOOLEAN, closeOk \in BOOLEAN : VMwareHTTPFile_del(respOk, closeOk)

DoSetEof == \E v \in BOOLEAN : set_eof(v)

DoWrite == \E sendOk \in BOOLEAN : write(sendOk)

DoRead == \E n \in RequestedSizes, readOk \in BOOLEAN : read(n, readOk)

Next ==
  \/ ConstructWrite
  \/ ConstructRead
  \/ DoClose
  \/ DoDel
  \/ DoSetEof
  \/ DoWrite
  \/ DoRead
  \/ get_size

Spec == Init /\ [][Next]_vars

\* CPython finalizes an object as soon as its last reference is dropped, so
\* the finalizer of a stream that exists cannot be postponed for ever
FairSpec == Init /\ [][Next]_vars /\ WF_vars(DoDel)

DoGlanceRead == \E n \in RequestedSizes : GlanceFileRead_read(n)

NextGlance ==
  \/ DoGlanceRead
  \/ GlanceFileRead_close

SpecGlance == InitGlance /\ [][NextGlance]_vars


\* ------------------------------------------------------------------------
\* Properties
\* ------------------------------------------------------------------------
CloseCalls == Cardinality({ i \in 1..Len(releaseLog) : releaseLog[i].op = "close" })

Failures(l) == Cardinality({ i \in 1..Len(l) : ~ l[i].ok })

\* __init__ raised: the object is half-built, or was finalized half-built
CtorRaised == phase = "failed" \/ (phase = "finalized" /\ ~ file_handle)

\* a step in which close() ran: called by the caller, or by the finalizer
CloseStep == nclose' = nclose + 1 \/ (phase # "finalized" /\ phase' = "finalized")

\* attribute lookups of close() that fail on a half-built object
MissingAttrs ==
  (IF kind = "write" /\ ~ conn THEN 1 ELSE 0) + (IF ~ file_handle THEN 1 ELSE 0)

\* C1: over the stream's lifetime (close() calls and the finalizer) the
\* transport handle is closed at most once.
C1_ClosedAtMostOnce == CloseCalls <= 1

\* C2: close() never raises to its caller, whatever fails inside it (the
\* response read, the release of the handle, a missing attribute on a
\* half-built stream), and every such failure is logged.
C2_CloseNeverRaises ==
  [][CloseStep =>
       /\ raised' = "none"
       /\ Len(log') - Len(log)
            = (Failures(releaseLog') - Failures(releaseLog)) + MissingAttrs]_vars

C2_Witness ==
  /\ kind = "write"
  /\ nclose >= 2
  /\ \E i \in 1..Len(releaseLog) : releaseLog[i].op = "getresponse" /\ ~ releaseLog[i].ok
  /\ \E i \in 1..Len(releaseLog) : releaseLog[i].op = "close" /\ ~ releaseLog[i].ok
  /\ nio = 0
  /\ nseteof = 0
  /\ raised = "none"

\* C3: the end-of-file flag never goes from true back to false: once
\* get_eof() has returned true it returns true ever after.
C3_EofNeverResets == [][get_eof => get_eof']_vars

\* C4: the k-th read() of GlanceFileRead returns the k-th chunk of the source
\* while there is one, and the empty result on every call after the last
\* chunk; no chunk is returned twice.
C4_ChunksInOrderThenEmpty ==
  /\ iterPos <= Len(glance_read_iter)
  /\ \A k \in 1..Len(results) :
       results[k] = IF k <= Len(glance_read_iter) THEN glance_read_iter[k] ELSE ""

C4_Witness ==
  /\ glance_read_iter = <<"c1", "c2">>
  /\ Len(results) >= 4
  /\ iterState = "finished"

\* what the constructor must leave behind when it raises before any network
\* activity
NoNetworkActivity ==
  /\ connObj = "none"
  /\ request.method = "none"
  /\ ~ conn
  /\ ~ file_handle

\* C5 as stated: a write stream constructed with a scheme other than 'http'
\* or 'https' raises before any network activity.
C5_OtherSchemeRaises ==
  (kind = "write" /\ args.scheme \notin {S_http, S_https})
     => (CtorRaised /\ NoNetworkActivity)

\* C5 as amended: a write stream whose built URL does not parse to the scheme
\* 'http' or 'https' (urlparse lower-cases the scheme) raises before any
\* network activity.
C5_UnparsedSchemeRaises ==
  (kind = "write" /\ urlparse(base_url).scheme \notin {S_http, S_https})
     => /\ CtorRaised
        /\ NoNetworkActivity
        /\ (phase = "failed" => raised # "none")

C5_Witness ==
  /\ kind = "write"
  /\ args.scheme = <<"f","t","p">>
  /\ phase = "failed"
  /\ raised = "UnboundLocalError"

\* C6: a stream whose construction succeeded has its handle's close() called
\* eventually, with or without an explicit close(); a finalizer that runs
\* without an earlier close() makes the calls close() makes (for a write
\* stream the response read, then the release).
C6_FinalizerReleases ==
  /\ (phase = "open") ~> (CloseCalls >= 1)
  /\ [](phase = "finalized" /\ file_handle /\ nclose = 0 =>
          IF kind = "write"
          THEN /\ Len(releaseLog) = 2
               /\ releaseLog[1].op = "getresponse"
               /\ releaseLog[2].op = "close"
          ELSE /\ Len(releaseLog) = 1
               /\ releaseLog[1].op = "close")

C6_Witness ==
  /\ kind = "write"
  /\ phase = "finalized"
  /\ file_handle
  /\ nclose = 0
  /\ CloseCalls = 1

\* a step in which read() of the read stream returned
ReadStep == nio' = nio + 1 /\ kind = "read" /\ raised' = "none"

\* C7: read(n) of the read stream asks the response for 65536 bytes whatever
\* n is, returns at most 65536 bytes, and returns fewer only when that drains
\* the response (nothing at all once it is drained).
C7_ReadIgnoresRequestedSize ==
  [][ReadStep =>
       /\ lastRead'.asked = 65536
       /\ lastRead'.got <= 65536
       /\ lastRead'.got = remaining - remaining'
       /\ (lastRead'.got < 65536 => remaining' = 0)
       /\ (remaining = 0 => lastRead'.got = 0)]_vars

C7_Witness ==
  /\ kind = "read"
  /\ nio = 2
  /\ lastRead = [asked |-> 65536, got |-> 4464]
  /\ remaining = 0

\* C8: get_size() returns an integer: -1 without a Content-Length header,
\* else the byte count of the header.
C8_SizeIsInteger ==
  lastSize # NoSize =>
    /\ lastSize.type = "int"
    /\ lastSize.val = IF respHeaders = NoHeader THEN "-1" ELSE respHeaders

\* index of the first occurrence of sub in s, 0 when absent
FindSub(s, sub) ==
  IF Contains(s, sub)
  THEN CHOOSE i \in 1..Len(s) :
         /\ SubSeq(s, i, i + Len(sub) - 1) = sub
         /\ \A j \in 1..(i - 1) : SubSeq(s, j, j + Len(sub) - 1) # sub
  ELSE 0

\* the part of a built URL between '/folder/' and the '?' of the query
PathSegment(url) ==
  SubSeq(url, FindSub(url, S_folder) + Len(S_folder), RFind(url, "?") - 1)

QueryOf(url) == Suffix(url, RFind(url, "?"))

Punctuation == {" ", "#", "%", "&", "+", "/", ":", ";", "=", "?"}

\* percent-decoding
RECURSIVE Unquote(_)
Unquote(s) ==
  IF s = <<>> THEN <<>>
  ELSE IF Head(s) = "%" /\ Len(s) >= 3
            /\ \E c \in Punctuation : HexOf(c) = <<s[2], s[3]>>
       THEN <<CHOOSE c \in Punctuation : HexOf(c) = <<s[2], s[3]>> >>
              \o Unquote(SubSeq(s, 4, Len(s)))
       ELSE <<Head(s)>> \o Unquote(Tail(s))

C10_ResponseThenRelease ==
  kind = "write" =>
    \A i \in 1..Len(releaseLog) :
      /\ releaseLog[i].op = "close" =>
           (i > 1 /\ releaseLog[i - 1].op = "getresponse")
      /\ releaseLog[i].op = "getresponse" =>
           (i < Len(releaseLog) /\ releaseLog[i + 1].op = "close")

C10_Witness ==
  /\ kind = "write"
  /\ nclose = 1
  /\ phase = "open"
  /\ Len(releaseLog) = 2
  /\ releaseLog[1] = [op |-> "getresponse", ok |-> FALSE]
  /\ releaseLog[2].op = "close"

====
